---------------------------- MODULE Spec2Model ----------------------------
(***************************************************************************)
(* Map-layer streaming and object registration of ACarlaGameModeBase       *)
(* (CarlaGameModeBase.cpp): LoadMapLayer / UnLoadMapLayer resolve a layer   *)
(* mask to sub-level names, issue one latent streaming operation per name   *)
(* and set a pending counter; OnLoadStreamLevel / OnUnloadStreamLevel       *)
(* decrement the counter and, when it is zero and ReadyToRegisterObjects    *)
(* is set, rebuild the object register (and, after loads, re-tag).          *)
(*                                                                         *)
(* All handlers run on the game thread, so each is one atomic action.      *)
(* Strings are sequences of one-character strings, so that substring        *)
(* matching is computed and not assumed.                                    *)
(***************************************************************************)
EXTENDS Integers, Sequences, FiniteSets, TLC

(***************************************************************************)
(* Bounds of the model.                                                     *)
(***************************************************************************)
\* LoadMapLayer and UnLoadMapLayer calls (those BeginPlay makes included) plus
\* callbacks the host delivers for no issued operation
MaxRequests == 3
\* BeginPlay runs (the engine runs it once; a second run is the double-ready case)
MaxBeginPlay == 2
\* streaming levels of a world given to ConvertMapLayerMaskToMapNames on its own
MaxLevels == 2

(***************************************************************************)
(* Strings.                                                                 *)
(***************************************************************************)
\* FString comparison with ESearchCase::IgnoreCase, the default of FString::Contains
ToLower(c) ==
  CASE c = "A" -> "a" [] c = "B" -> "b" [] c = "D" -> "d" [] c = "F" -> "f"
    [] c = "G" -> "g" [] c = "I" -> "i" [] c = "L" -> "l" [] c = "N" -> "n"
    [] c = "P" -> "p" [] c = "S" -> "s" [] c = "T" -> "t" [] c = "V" -> "v"
    [] c = "W" -> "w" [] OTHER -> c

\* SubMapName.Contains(LayerName): LayerName occurs in SubMapName as a substring
Contains(SubMapName, LayerName) ==
  /\ Len(LayerName) > 0
  /\ \E i \in 1..(Len(SubMapName) - Len(LayerName) + 1) :
       \A j \in 1..Len(LayerName) :
         ToLower(SubMapName[i + j - 1]) = ToLower(LayerName[j])

(***************************************************************************)
(* carla::rpc::MapLayer and MapLayerToString.                               *)
(***************************************************************************)
\* the bits of the defined layers
LayerBits == {1, 2, 4, 8, 16, 32, 64, 128, 256}

\* MapLayer::All, the mask of the bit walk: the union of the defined layer bits
AllLayersMask == 511

\* MapLayerType is uint16_t
MapLayerTypeWidth == 65536

MapLayerToString(MapLayerValue) ==
  CASE MapLayerValue = 0     -> <<"N","o","n","e">>
    [] MapLayerValue = 1     -> <<"B","u","i","l","d","i","n","g","s">>
    [] MapLayerValue = 2     -> <<"D","e","c","a","l","s">>
    [] MapLayerValue = 4     -> <<"F","o","l","i","a","g","e">>
    [] MapLayerValue = 8     -> <<"G","r","o","u","n","d">>
    [] MapLayerValue = 16    -> <<"P","a","r","k","e","d","_","V","e","h","i","c","l","e","s">>
    [] MapLayerValue = 32    -> <<"P","a","r","t","i","c","l","e","s">>
    [] MapLayerValue = 64    -> <<"P","r","o","p","s">>
    [] MapLayerValue = 128   -> <<"S","t","r","e","e","t","L","i","g","h","t","s">>
    [] MapLayerValue = 256   -> <<"W","a","l","l","s">>
    [] MapLayerValue = AllLayersMask -> <<"A","l","l">>
    [] OTHER                 -> <<"I","n","v","a","l","i","d">>

\* a & b on non-negative integers
RECURSIVE BitAnd(_, _)
BitAnd(a, b) ==
  IF a = 0 \/ b = 0 THEN 0
  ELSE (a % 2) * (b % 2) + 2 * BitAnd(a \div 2, b \div 2)

(***************************************************************************)
(* The world: World->GetStreamingLevels(), by umap name.                    *)
(***************************************************************************)
Levels ==
  << <<"T","_","B","u","i","l","d","i","n","g","s">>,
     <<"T","_","D","e","c","a","l","s">>,
     <<"T","_","F","o","l","i","a","g","e">> >>

(***************************************************************************)
(* ConvertMapLayerMaskToMapNames.                                           *)
(***************************************************************************)
\* mutant: every layer is taken, requested or not
CollectAlways(MapLayer, LayerMask, acc) ==
  Append(acc, MapLayerToString(LayerMask % MapLayerTypeWidth))

\* the body of the while loop: the layer of LayerMask is kept when requested
Collect(MapLayer, LayerMask, acc) ==
  LET LayerName == MapLayerToString(LayerMask % MapLayerTypeWidth)
      included  == BitAnd(MapLayer % MapLayerTypeWidth, LayerMask) # 0
  IN  IF included THEN Append(acc, LayerName) ELSE acc

\* mutant: the shift without the All mask, ended by the width of MapLayerType
WalkNextUnmasked(LayerMask) == (LayerMask * 2) % MapLayerTypeWidth

\* LayerMask = (LayerMask << 1) & AllLayersMask
WalkNext(LayerMask) == BitAnd(LayerMask * 2, AllLayersMask)

\* the while loop over LayerMask: the names of the requested layers
RECURSIVE LayersToLoad(_, _, _)
LayersToLoad(MapLayer, LayerMask, acc) ==
  IF ~(LayerMask > 0) THEN acc
  ELSE LayersToLoad(MapLayer, WalkNext(LayerMask), Collect(MapLayer, LayerMask, acc))

\* mutant: the inner loop without its break, a level is emitted once per matching layer
RECURSIVE MatchLevelsNoBreak(_, _, _, _)
MatchLevelsNoBreak(LevelList, Layers, i, OutLevelNames) ==
  IF i > Len(LevelList) THEN OutLevelNames
  ELSE LET SubMapName == LevelList[i]
           hits == Cardinality({k \in 1..Len(Layers) : Contains(SubMapName, Layers[k])})
       IN  MatchLevelsNoBreak(LevelList, Layers, i + 1,
             OutLevelNames \o [n \in 1..hits |-> SubMapName])

\* the loop over the streaming levels: a level is emitted at its first matching layer
RECURSIVE MatchLevels(_, _, _, _)
MatchLevels(LevelList, Layers, i, OutLevelNames) ==
  IF i > Len(LevelList) THEN OutLevelNames
  ELSE LET SubMapName == LevelList[i]
           hit == \E k \in 1..Len(Layers) : Contains(SubMapName, Layers[k])
       IN  MatchLevels(LevelList, Layers, i + 1,
                       IF hit THEN Append(OutLevelNames, SubMapName)
                       ELSE OutLevelNames)

ConvertMapLayerMaskToMapNames(MapLayer, LevelList) ==
  MatchLevels(LevelList, LayersToLoad(MapLayer, 1, <<>>), 1, <<>>)

(***************************************************************************)
(* State.                                                                   *)
(***************************************************************************)
VARIABLES
  PendingLevelsToLoad,     \* int, set by LoadMapLayer, decremented by OnLoadStreamLevel
  PendingLevelsToUnLoad,   \* int, set by UnLoadMapLayer, decremented by OnUnloadStreamLevel
  ReadyToRegisterObjects,  \* bool, set by BeginPlay
  LoadOps,                 \* host: latent load operations issued and not yet completed
  UnloadOps,               \* host: latent unload operations issued and not yet completed
  loadBatches,             \* history: one record per LoadMapLayer call
  unloadBatches,           \* history: one record per UnLoadMapLayer call
  last,                    \* history: the handler that ran last and the calls it made
  nBeginPlay,              \* history: BeginPlay runs so far
  nSpurious,               \* history: callbacks delivered for no issued operation
  resolver                 \* one call of ConvertMapLayerMaskToMapNames, step by step

vars == << PendingLevelsToLoad, PendingLevelsToUnLoad, ReadyToRegisterObjects,
           LoadOps, UnloadOps, loadBatches, unloadBatches, last, nBeginPlay,
           nSpurious, resolver >>

\* masks a caller passes to LoadMapLayer / UnLoadMapLayer:
\* None, Buildings, Decals|Foliage
RequestMasks == {0, 1, 6}

\* values of GameInstance->GetCurrentMapLayer() at BeginPlay: None, Decals|Foliage
StartupMasks == {0, 6}

\* ConvertMapLayerMaskToMapNames on the masks above, in this world
Resolved ==
  [ m \in RequestMasks \cup StartupMasks |-> ConvertMapLayerMaskToMapNames(m, Levels) ]

Register == "RegisterEnvironmentObjects"
Tag == "TagActorsInLevel"

RECURSIVE Count(_, _)
Count(calls, name) ==
  IF calls = <<>> THEN 0
  ELSE (IF Head(calls) = name THEN 1 ELSE 0) + Count(Tail(calls), name)

\* operations of batch b the host has not completed yet
Remaining(ops, b) == Cardinality({op \in ops : op.batch = b})

\* the latent operations one call issues: LatentInfo.UUID starts at 1 in every
\* call and is incremented after each issued operation
IssuedOps(b, LevelNames) ==
  { [batch |-> b, UUID |-> i, Level |-> LevelNames[i]] : i \in 1..Len(LevelNames) }

NewBatch(MapLayers, inFlight) ==
  [ mask   |-> MapLayers,
    ready  |-> ReadyToRegisterObjects,
    quiet  |-> inFlight = {},
    alone  |-> ReadyToRegisterObjects /\ inFlight = {},
    regs   |-> 0,
    tags   |-> 0 ]

\* a new call of the same direction ends the "alone" run of every batch in flight
Disturb(batches, ops) ==
  [ b \in DOMAIN batches |->
      IF Remaining(ops, b) > 0 THEN [batches[b] EXCEPT !.alone = FALSE]
      ELSE batches[b] ]

\* what the bound MaxRequests counts
Requests == Len(loadBatches) + Len(unloadBatches) + nSpurious

\* the game mode before any call
Controller ==
  /\ PendingLevelsToLoad = 0
  /\ PendingLevelsToUnLoad = 0
  /\ ReadyToRegisterObjects = FALSE
  /\ LoadOps = {}
  /\ UnloadOps = {}
  /\ loadBatches = <<>>
  /\ unloadBatches = <<>>
  /\ last = [op |-> "Init", batch |-> 0, calls |-> <<>>]
  /\ nBeginPlay = 0
  /\ nSpurious = 0

\* no call of ConvertMapLayerMaskToMapNames is followed step by step
NoResolver ==
  [ pc |-> "idle", MapLayer |-> 0, Levels |-> <<>>, LayerMask |-> 0,
    LayersToLoad |-> <<>>, OutLevelNames |-> <<>>, steps |-> 0 ]

Init == Controller /\ resolver = NoResolver

(***************************************************************************)
(* LoadMapLayer / UnLoadMapLayer.                                           *)
(***************************************************************************)
\* the body of LoadMapLayer: resolve, set the counter, issue one load per name
LoadMapLayerBody(MapLayers) ==
  LET LevelsToLoad == Resolved[MapLayers]
      b == Len(loadBatches) + 1
  IN  /\ PendingLevelsToLoad' = Len(LevelsToLoad)
      /\ LoadOps' = LoadOps \cup IssuedOps(b, LevelsToLoad)
      /\ loadBatches' = Append(Disturb(loadBatches, LoadOps),
                               NewBatch(MapLayers, LoadOps))

LoadMapLayer(MapLayers) ==
  /\ Requests < MaxRequests
  /\ LoadMapLayerBody(MapLayers)
  /\ last' = [op |-> "LoadMapLayer", batch |-> Len(loadBatches) + 1, calls |-> <<>>]
  /\ UNCHANGED << PendingLevelsToUnLoad, ReadyToRegisterObjects, UnloadOps,
                  unloadBatches, nBeginPlay, nSpurious, resolver >>

UnLoadMapLayer(MapLayers) ==
  LET LevelsToUnLoad == Resolved[MapLayers]
      b == Len(unloadBatches) + 1
  IN  /\ Requests < MaxRequests
      /\ PendingLevelsToUnLoad' = Len(LevelsToUnLoad)
      /\ UnloadOps' = UnloadOps \cup IssuedOps(b, LevelsToUnLoad)
      /\ unloadBatches' = Append(Disturb(unloadBatches, UnloadOps),
                                 NewBatch(MapLayers, UnloadOps))
      /\ last' = [op |-> "UnLoadMapLayer", batch |-> b, calls |-> <<>>]
      /\ UNCHANGED << PendingLevelsToLoad, ReadyToRegisterObjects, LoadOps,
                      loadBatches, nBeginPlay, nSpurious, resolver >>

(***************************************************************************)
(* BeginPlay.                                                               *)
(***************************************************************************)
\* mutant: the final check without the counter
BeginPlayRegistersAlways(ready, pendingLoad) == ready

\* mutant: BeginPlay leaves registration to the callbacks
BeginPlayRegistersNever(ready, pendingLoad) == FALSE

\* the final check of BeginPlay
BeginPlayRegisters(ready, pendingLoad) == ready /\ pendingLoad = 0

BeginPlay(CurrentMapLayer) ==
  /\ nBeginPlay < MaxBeginPlay
  /\ Requests < MaxRequests
  /\ LoadMapLayerBody(CurrentMapLayer)
  /\ ReadyToRegisterObjects' = TRUE
  /\ last' = [ op    |-> "BeginPlay",
               batch |-> Len(loadBatches) + 1,
               calls |-> <<Tag>> \o
                         (IF BeginPlayRegisters(ReadyToRegisterObjects',
                                                PendingLevelsToLoad')
                          THEN <<Register>> ELSE <<>>) ]
  /\ nBeginPlay' = nBeginPlay + 1
  /\ UNCHANGED << PendingLevelsToUnLoad, UnloadOps, unloadBatches, nSpurious,
                  resolver >>

(***************************************************************************)
(* Completion callbacks.                                                    *)
(***************************************************************************)
\* mutant: the test without the counter
LoadSettledEveryTime(ready, pendingLoad) == ready

\* mutant: the test with <= for ==
LoadSettledAtMostZero(ready, pendingLoad) == ready /\ pendingLoad <= 0

\* mutant: the test without the ready flag
LoadSettledUngated(ready, pendingLoad) == pendingLoad = 0

\* the test of OnLoadStreamLevel, after the decrement
LoadSettled(ready, pendingLoad) == ready /\ pendingLoad = 0

\* mutant: the unload test also waits for the load counter
UnloadSettledWaitsForLoads(ready, pendingUnload) ==
  ready /\ pendingUnload = 0 /\ PendingLevelsToLoad = 0

\* the test of OnUnloadStreamLevel, after the decrement
UnloadSettled(ready, pendingUnload) == ready /\ pendingUnload = 0

\* mutant: the load handler tags before it registers
LoadPassTagFirst == <<Tag, Register>>

\* the calls OnLoadStreamLevel makes when its test passes
LoadPass == <<Register, Tag>>

\* mutant: the unload handler tags as the load handler does
UnloadPassTagging == <<Register, Tag>>

\* the calls OnUnloadStreamLevel makes when its test passes
UnloadPass == <<Register>>

Credit(batches, b, calls) ==
  IF b = 0 THEN batches
  ELSE [batches EXCEPT ![b].regs = @ + Count(calls, Register),
                       ![b].tags = @ + Count(calls, Tag)]

\* mutant: the load handler decrements the unload counter
OnLoadStreamLevelWrongCounter(b) ==
  LET calls == IF LoadSettled(ReadyToRegisterObjects, PendingLevelsToLoad)
               THEN LoadPass ELSE <<>>
  IN  /\ PendingLevelsToUnLoad' = PendingLevelsToUnLoad - 1
      /\ loadBatches' = Credit(loadBatches, b, calls)
      /\ last' = [op |-> "OnLoadStreamLevel", batch |-> b, calls |-> calls]
      /\ UNCHANGED << PendingLevelsToLoad, ReadyToRegisterObjects, UnloadOps,
                      unloadBatches, nBeginPlay, resolver >>

\* the handler; b is the batch of the operation that completed, 0 for none
OnLoadStreamLevel(b) ==
  LET calls == IF LoadSettled(ReadyToRegisterObjects, PendingLevelsToLoad')
               THEN LoadPass ELSE <<>>
  IN  /\ PendingLevelsToLoad' = PendingLevelsToLoad - 1
      /\ loadBatches' = Credit(loadBatches, b, calls)
      /\ last' = [op |-> "OnLoadStreamLevel", batch |-> b, calls |-> calls]
      /\ UNCHANGED << PendingLevelsToUnLoad, ReadyToRegisterObjects, UnloadOps,
                      unloadBatches, nBeginPlay, resolver >>

OnUnloadStreamLevel(b) ==
  LET calls == IF UnloadSettled(ReadyToRegisterObjects, PendingLevelsToUnLoad')
               THEN UnloadPass ELSE <<>>
  IN  /\ PendingLevelsToUnLoad' = PendingLevelsToUnLoad - 1
      /\ unloadBatches' = Credit(unloadBatches, b, calls)
      /\ last' = [op |-> "OnUnloadStreamLevel", batch |-> b, calls |-> calls]
      /\ UNCHANGED << PendingLevelsToLoad, ReadyToRegisterObjects, LoadOps,
                      loadBatches, nBeginPlay, resolver >>

\* the host completes an issued load and calls back
LoadCompleted ==
  \E op \in LoadOps :
    /\ LoadOps' = LoadOps \ {op}
    /\ OnLoadStreamLevel(op.batch)
    /\ UNCHANGED nSpurious

\* the host completes an issued unload and calls back
UnloadCompleted ==
  \E op \in UnloadOps :
    /\ UnloadOps' = UnloadOps \ {op}
    /\ OnUnloadStreamLevel(op.batch)
    /\ UNCHANGED nSpurious

\* the host calls back for no issued operation
SpuriousLoadCallback ==
  /\ Requests < MaxRequests
  /\ nSpurious' = nSpurious + 1
  /\ OnLoadStreamLevel(0)
  /\ UNCHANGED LoadOps

SpuriousUnloadCallback ==
  /\ Requests < MaxRequests
  /\ nSpurious' = nSpurious + 1
  /\ OnUnloadStreamLevel(0)
  /\ UNCHANGED UnloadOps

(***************************************************************************)
(* Specifications.                                                          *)
(***************************************************************************)
RequestLoad == \E m \in RequestMasks : LoadMapLayer(m)

RequestUnload == \E m \in RequestMasks : UnLoadMapLayer(m)

Startup == \E m \in StartupMasks : BeginPlay(m)

\* the host delivers exactly one completion callback per issued operation
Next ==
  \/ RequestLoad
  \/ RequestUnload
  \/ Startup
  \/ LoadCompleted
  \/ UnloadCompleted

Spec == Init /\ [][Next]_vars

\* the host may also deliver callbacks that no issued operation accounts for
NextSpurious ==
  \/ Next
  \/ SpuriousLoadCallback
  \/ SpuriousUnloadCallback

SpecSpurious == Init /\ [][NextSpurious]_vars

\* the BeginPlay the host runs once the actor enters play
FirstBeginPlay == ~ReadyToRegisterObjects /\ Startup

\* every issued operation is completed and called back, and BeginPlay runs;
\* the caller is free to make no further request
SpecFair ==
  /\ Init
  /\ [][Next]_vars
  /\ WF_vars(LoadCompleted)
  /\ WF_vars(UnloadCompleted)
  /\ WF_vars(FirstBeginPlay)

(***************************************************************************)
(* ConvertMapLayerMaskToMapNames on its own, for any mask and any world.    *)
(***************************************************************************)
\* umap names a world may hold: three layers, a level of two layers, a level of
\* no layer, and a level named like the default of MapLayerToString
LevelNames ==
  { <<"T","_","B","u","i","l","d","i","n","g","s">>,
    <<"T","_","D","e","c","a","l","s">>,
    <<"T","_","F","o","l","i","a","g","e","_","D","e","c","a","l","s">>,
    <<"T","_","S","k","y">>,
    <<"T","_","I","n","v","a","l","i","d">> }

Worlds == UNION { [1..n -> LevelNames] : n \in 0..MaxLevels }

\* None, Buildings, Decals, Decals|Foliage, All, an undefined bit, an undefined
\* bit with Decals|Foliage, a bit above MapLayerType with Decals, all bits set
ResolveMasks == {0, 1, 2, 6, AllLayersMask, 512, 518, 65538, -1}

InitResolve ==
  /\ Controller
  /\ \E m \in ResolveMasks, w \in Worlds :
       resolver = [ pc |-> "walk", MapLayer |-> m, Levels |-> w, LayerMask |-> 1,
                    LayersToLoad |-> <<>>, OutLevelNames |-> <<>>, steps |-> 0 ]

\* one turn of the while loop
ResolveWalk ==
  /\ resolver.pc = "walk"
  /\ resolver.LayerMask > 0
  /\ resolver' = [ resolver EXCEPT
                     !.LayersToLoad = Collect(resolver.MapLayer, resolver.LayerMask, @),
                     !.LayerMask = WalkNext(@),
                     !.steps = @ + 1 ]
  /\ UNCHANGED << PendingLevelsToLoad, PendingLevelsToUnLoad, ReadyToRegisterObjects,
                  LoadOps, UnloadOps, loadBatches, unloadBatches, last, nBeginPlay,
                  nSpurious >>

\* the loop over the streaming levels, after the while loop has ended
ResolveMatch ==
  /\ resolver.pc = "walk"
  /\ ~(resolver.LayerMask > 0)
  /\ resolver' = [ resolver EXCEPT
                     !.OutLevelNames = MatchLevels(resolver.Levels,
                                                   resolver.LayersToLoad, 1, <<>>),
                     !.pc = "done" ]
  /\ UNCHANGED << PendingLevelsToLoad, PendingLevelsToUnLoad, ReadyToRegisterObjects,
                  LoadOps, UnloadOps, loadBatches, unloadBatches, last, nBeginPlay,
                  nSpurious >>

NextResolve == ResolveWalk \/ ResolveMatch

SpecResolve == InitResolve /\ [][NextResolve]_vars

(***************************************************************************)
(* Properties.                                                              *)
(***************************************************************************)
\* number of sub-levels a batch resolved to
Size(B) == Len(Resolved[B.mask])

LevelSet(B) == { Resolved[B.mask][i] : i \in 1..Len(Resolved[B.mask]) }

\* C1: a LoadMapLayer call made with the ready flag set and no load in flight,
\* resolving to N >= 1 sub-levels and not overlapped by another load request,
\* runs the register-and-tag pass once: on the completion that leaves none of
\* its operations in flight, and on none before.
C1_LoadBatchRegistersOnce ==
  \A b \in DOMAIN loadBatches :
    LET B == loadBatches[b]
        settled == Remaining(LoadOps, b) = 0
    IN  (B.alone /\ Size(B) >= 1) =>
          /\ B.regs = (IF settled THEN 1 ELSE 0)
          /\ B.tags = B.regs
          /\ (last.op = "OnLoadStreamLevel" /\ last.batch = b) =>
               last.calls = (IF settled THEN <<Register, Tag>> ELSE <<>>)

C1_Witness ==
  \E b \in DOMAIN loadBatches :
    /\ loadBatches[b].alone
    /\ Size(loadBatches[b]) = 2
    /\ Remaining(LoadOps, b) = 0
    /\ loadBatches[b].regs = 1
    /\ last = [op |-> "OnLoadStreamLevel", batch |-> b, calls |-> <<Register, Tag>>]

\* C2: two load requests with disjoint non-empty sub-level sets, both made with
\* the ready flag set, the first with no load in flight and none after the
\* second: each batch has registered once when all its completions have
\* arrived, and not at all before.
C2_OncePerBatch ==
  \A a, b \in DOMAIN loadBatches :
    LET A == loadBatches[a]
        B == loadBatches[b]
    IN  ( /\ b = a + 1
          /\ b = Len(loadBatches)
          /\ A.ready /\ B.ready /\ A.quiet
          /\ Size(A) >= 1 /\ Size(B) >= 1
          /\ LevelSet(A) \cap LevelSet(B) = {} ) =>
        \A x \in {a, b} :
          loadBatches[x].regs = (IF Remaining(LoadOps, x) = 0 THEN 1 ELSE 0)

\* C3: a completion callback never runs the registration pass while an
\* operation of its direction is still in flight.
C3_NoRegistrationMidFlight ==
  /\ (last.op = "OnLoadStreamLevel" /\ Count(last.calls, Register) > 0) =>
       LoadOps = {}
  /\ (last.op = "OnUnloadStreamLevel" /\ Count(last.calls, Register) > 0) =>
       UnloadOps = {}

\* C4: both pending counters are never negative when the host delivers one
\* completion callback per issued operation.
C4_CountersNonNegative ==
  PendingLevelsToLoad >= 0 /\ PendingLevelsToUnLoad >= 0

\* C5: a completion callback that arrives with its counter at 0 leaves the
\* counter at 0.
C5_DecrementFloored ==
  [][ /\ (last'.op = "OnLoadStreamLevel" /\ PendingLevelsToLoad = 0) =>
           PendingLevelsToLoad' = 0
      /\ (last'.op = "OnUnloadStreamLevel" /\ PendingLevelsToUnLoad = 0) =>
           PendingLevelsToUnLoad' = 0 ]_vars

\* C6: with the ready flag set and the counter at 0 after a settled batch, a
\* callback for no counted operation makes no registration or tagging call.
C6_ExtraCallbackRegistersNothing ==
  [][ /\ ( /\ last'.op = "OnLoadStreamLevel" /\ last'.batch = 0
           /\ ReadyToRegisterObjects /\ PendingLevelsToLoad = 0 ) =>
           (last'.calls = <<>> /\ loadBatches' = loadBatches)
      /\ ( /\ last'.op = "OnUnloadStreamLevel" /\ last'.batch = 0
           /\ ReadyToRegisterObjects /\ PendingLevelsToUnLoad = 0 ) =>
           (last'.calls = <<>> /\ unloadBatches' = unloadBatches) ]_vars

C6_Witness ==
  /\ last = [op |-> "OnLoadStreamLevel", batch |-> 0, calls |-> <<>>]
  /\ ReadyToRegisterObjects
  /\ PendingLevelsToLoad = -1
  /\ LoadOps = {}
  /\ \E b \in DOMAIN loadBatches :
       Size(loadBatches[b]) >= 1 /\ loadBatches[b].regs = 1

\* C7: RegisterEnvironmentObjects is called only with the ready flag set, and
\* a completion callback that arrives with the flag clear only decrements its
\* own counter.
C7_RegistrationNeedsReady ==
  [][ /\ Count(last'.calls, Register) > 0 => ReadyToRegisterObjects'
      /\ (last'.op = "OnLoadStreamLevel" /\ ~ReadyToRegisterObjects) =>
           /\ last'.calls = <<>>
           /\ PendingLevelsToLoad' = PendingLevelsToLoad - 1
           /\ UNCHANGED << PendingLevelsToUnLoad, ReadyToRegisterObjects >>
      /\ (last'.op = "OnUnloadStreamLevel" /\ ~ReadyToRegisterObjects) =>
           /\ last'.calls = <<>>
           /\ PendingLevelsToUnLoad' = PendingLevelsToUnLoad - 1
           /\ UNCHANGED << PendingLevelsToLoad, ReadyToRegisterObjects >> ]_vars

C7_Witness ==
  /\ last.op = "OnLoadStreamLevel"
  /\ last.batch > 0
  /\ last.calls = <<>>
  /\ ~ReadyToRegisterObjects
  /\ PendingLevelsToLoad = 0
  /\ LoadOps = {}

\* a load batch issued before the first BeginPlay all of whose completions
\* arrived before it; stated of the state BeginPlay leaves
CompletedBeforeReady(b) ==
  /\ last.op = "BeginPlay"
  /\ nBeginPlay = 1
  /\ b < last.batch
  /\ Size(loadBatches[b]) >= 1
  /\ Remaining(LoadOps, b) = 0

\* C8 as claimed: when every completion of a load batch arrived with the ready
\* flag clear, BeginPlay makes the registration call, once.
C8_ReadinessRegisters ==
  \A b \in DOMAIN loadBatches :
    CompletedBeforeReady(b) => Count(last.calls, Register) = 1

\* C8 as amended: in that case no completion of the batch has registered, and
\* BeginPlay makes the registration call, once, exactly when its own
\* LoadMapLayer of the current mask resolves to no sub-level.
C8_ReadinessRegistersIfStartupEmpty ==
  \A b \in DOMAIN loadBatches :
    CompletedBeforeReady(b) =>
      /\ loadBatches[b].regs = 0
      /\ Count(last.calls, Register) =
           (IF Size(loadBatches[last.batch]) = 0 THEN 1 ELSE 0)

C8_Witness ==
  \E b \in DOMAIN loadBatches :
    /\ CompletedBeforeReady(b)
    /\ Size(loadBatches[last.batch]) = 0
    /\ Count(last.calls, Register) = 1

\* C9: an UnLoadMapLayer call made with the ready flag set and no unload in
\* flight, resolving to M >= 1 sub-levels and not overlapped by another unload
\* request, runs RegisterEnvironmentObjects once, on the completion that
\* leaves none of its operations in flight; no unload completion tags.
C9_UnloadBatchRegistersOnce ==
  /\ \A b \in DOMAIN unloadBatches :
       LET B == unloadBatches[b]
           settled == Remaining(UnloadOps, b) = 0
       IN  /\ B.tags = 0
           /\ (B.alone /\ Size(B) >= 1) =>
                /\ B.regs = (IF settled THEN 1 ELSE 0)
                /\ (last.op = "OnUnloadStreamLevel" /\ last.batch = b) =>
                     last.calls = (IF settled THEN <<Register>> ELSE <<>>)
  /\ last.op = "OnUnloadStreamLevel" => Count(last.calls, Tag) = 0

C9_Witness ==
  \E b \in DOMAIN unloadBatches :
    /\ unloadBatches[b].alone
    /\ Size(unloadBatches[b]) = 2
    /\ Remaining(UnloadOps, b) = 0
    /\ unloadBatches[b].regs = 1
    /\ last = [op |-> "OnUnloadStreamLevel", batch |-> b, calls |-> <<Register>>]

\* the counter of a direction is the number of operations in flight of the
\* latest batch of that direction, when that batch runs alone in its direction
CountsOwnBatch(pending, ops, batches) ==
  \A b \in DOMAIN batches :
    (b = Len(batches) /\ batches[b].alone) => pending = Remaining(ops, b)

\* C10: the load handlers leave the unload counter and the unload operations
\* alone, the unload handlers leave the load counter and the load operations
\* alone, none of the four clears the ready flag, and each counter follows the
\* operations in flight of its own direction whatever the other direction does.
C10_DirectionsIndependent ==
  [][ /\ last'.op \in {"LoadMapLayer", "OnLoadStreamLevel"} =>
           UNCHANGED << PendingLevelsToUnLoad, UnloadOps, unloadBatches >>
      /\ last'.op \in {"UnLoadMapLayer", "OnUnloadStreamLevel"} =>
           UNCHANGED << PendingLevelsToLoad, LoadOps, loadBatches >>
      /\ last'.op \in {"LoadMapLayer", "OnLoadStreamLevel",
                       "UnLoadMapLayer", "OnUnloadStreamLevel"} =>
           ReadyToRegisterObjects' = ReadyToRegisterObjects
      /\ CountsOwnBatch(PendingLevelsToLoad', LoadOps', loadBatches')
      /\ CountsOwnBatch(PendingLevelsToUnLoad', UnloadOps', unloadBatches') ]_vars

C10_Witness ==
  /\ last.op = "OnLoadStreamLevel"
  /\ loadBatches # <<>>
  /\ loadBatches[Len(loadBatches)].alone
  /\ unloadBatches # <<>>
  /\ unloadBatches[Len(unloadBatches)].alone
  /\ PendingLevelsToLoad = 1 /\ Cardinality(LoadOps) = 1
  /\ PendingLevelsToUnLoad = 2 /\ Cardinality(UnloadOps) = 2

\* C11: a LoadMapLayer (UnLoadMapLayer) call whose mask resolves to no
\* sub-level changes neither counter nor the ready flag, issues no operation
\* and makes no registration call, also with an earlier batch in flight.
C11_EmptyRequestIsNoOp ==
  [][ ( \/ ( /\ last'.op = "LoadMapLayer"
             /\ Size(loadBatches'[last'.batch]) = 0 )
        \/ ( /\ last'.op = "UnLoadMapLayer"
             /\ Size(unloadBatches'[last'.batch]) = 0 ) ) =>
      /\ UNCHANGED << PendingLevelsToLoad, PendingLevelsToUnLoad,
                      ReadyToRegisterObjects, LoadOps, UnloadOps >>
      /\ last'.calls = <<>> ]_vars

\* the defined layers a mask selects, bit by bit
SelectedLayers(MapLayer) ==
  { bit \in LayerBits : ((MapLayer % MapLayerTypeWidth) \div bit) % 2 = 1 }

\* the name holds the fragment of one of these layers
HasFragmentOf(name, bits) ==
  \E bit \in bits : Contains(name, MapLayerToString(bit))

Wanted(MapLayer, name) == HasFragmentOf(name, SelectedLayers(MapLayer))

\* the levels of a world the mask asks for, in the order of the world
WantedLevels(MapLayer, world) ==
  SelectSeq(world, LAMBDA name : Wanted(MapLayer, name))

\* C12: mask 0 resolves to the empty list, and the All mask resolves to the
\* whole list of known sub-levels when each of their names holds the fragment
\* of a layer.
C12_NoneAndAll ==
  resolver.pc = "done" =>
    /\ resolver.MapLayer = 0 => resolver.OutLevelNames = <<>>
    /\ ( /\ resolver.MapLayer = AllLayersMask
         /\ \A i \in 1..Len(resolver.Levels) :
              HasFragmentOf(resolver.Levels[i], LayerBits) ) =>
         resolver.OutLevelNames = resolver.Levels

C12_Witness ==
  /\ resolver.pc = "done"
  /\ resolver.MapLayer = AllLayersMask
  /\ Len(resolver.Levels) = 2
  /\ resolver.Levels[1] # resolver.Levels[2]
  /\ resolver.OutLevelNames = resolver.Levels

\* C13: the output is the list of known sub-levels whose name holds the
\* fragment of a layer the mask selects, each once, in the order of the known
\* list, and nothing else.
C13_ExactlyTheSelected ==
  resolver.pc = "done" =>
    resolver.OutLevelNames = WantedLevels(resolver.MapLayer, resolver.Levels)

C13_Witness ==
  /\ resolver.pc = "done"
  /\ resolver.MapLayer = 6
  /\ resolver.Levels =
       << <<"T","_","F","o","l","i","a","g","e","_","D","e","c","a","l","s">>,
          <<"T","_","B","u","i","l","d","i","n","g","s">> >>
  /\ resolver.OutLevelNames =
       << <<"T","_","F","o","l","i","a","g","e","_","D","e","c","a","l","s">> >>

\* a mask cut down to the defined layer bits
DefinedMask(MapLayer) == BitAnd(MapLayer % MapLayerTypeWidth, AllLayersMask)

RECURSIVE BitLength(_)
BitLength(n) == IF n = 0 THEN 0 ELSE 1 + BitLength(n \div 2)

\* C14: bits outside the defined layers are ignored, the output for a mask is
\* the output for the mask cut down to the defined bits, and the walk ends:
\* each turn moves LayerMask up or to 0, in at most one turn per bit of All.
C14_UndefinedBitsIgnored ==
  /\ resolver.pc = "done" =>
       resolver.OutLevelNames =
         ConvertMapLayerMaskToMapNames(DefinedMask(resolver.MapLayer), resolver.Levels)
  /\ resolver.steps <= BitLength(AllLayersMask)
  /\ (resolver.pc = "walk" /\ resolver.LayerMask > 0) =>
       LET next == WalkNext(resolver.LayerMask)
       IN  next = 0 \/ next > resolver.LayerMask

C14_Witness ==
  /\ resolver.pc = "done"
  /\ resolver.MapLayer = 518
  /\ resolver.Levels = << <<"T","_","I","n","v","a","l","i","d">>,
                          <<"T","_","D","e","c","a","l","s">> >>
  /\ resolver.OutLevelNames = << <<"T","_","D","e","c","a","l","s">> >>

\* C15: a BeginPlay that runs with the ready flag already set changes no
\* counter, issues no operation and makes no registration call.
C15_SecondBeginPlayIdempotent ==
  [][ ( /\ ReadyToRegisterObjects
        /\ nBeginPlay' = nBeginPlay + 1 ) =>
      /\ UNCHANGED << PendingLevelsToLoad, PendingLevelsToUnLoad, LoadOps, UnloadOps >>
      /\ Count(last'.calls, Register) = 0 ]_vars

\* C17: the operations in flight, of all batches and of both directions, carry
\* pairwise distinct LatentInfo.UUID values.
C17_IdentifiersDistinct ==
  /\ \A o1, o2 \in LoadOps : o1 # o2 => o1.UUID # o2.UUID
  /\ \A o1, o2 \in UnloadOps : o1 # o2 => o1.UUID # o2.UUID
  /\ \A o1 \in LoadOps, o2 \in UnloadOps : o1.UUID # o2.UUID

\* position of the first call of this name, 0 if there is none
RECURSIVE FirstCall(_, _, _)
FirstCall(calls, name, i) ==
  IF i > Len(calls) THEN 0
  ELSE IF calls[i] = name THEN i
  ELSE FirstCall(calls, name, i + 1)

\* C18 as stated: in every pass that registers, of a load completion or of
\* BeginPlay, RegisterEnvironmentObjects comes first and no TagActorsInLevel
\* call precedes it.
C18_RegisterBeforeTag ==
  (last.op \in {"OnLoadStreamLevel", "BeginPlay"} /\ Count(last.calls, Register) > 0) =>
    /\ FirstCall(last.calls, Register, 1) = 1
    /\ \A i \in 1..Len(last.calls) :
         last.calls[i] = Tag => i > FirstCall(last.calls, Register, 1)

\* C18, amended: the pass of a load completion is RegisterEnvironmentObjects
\* then TagActorsInLevel; BeginPlay tags first, whatever the counter, and makes
\* its RegisterEnvironmentObjects call last, with no tagging after it.
C18_LoadPassRegistersFirstBeginPlayTagsFirst ==
  /\ last.op = "OnLoadStreamLevel" => last.calls \in { <<>>, <<Register, Tag>> }
  /\ last.op = "BeginPlay" => last.calls \in { <<Tag>>, <<Tag, Register>> }

C18_Witness ==
  /\ last.op = "BeginPlay"
  /\ last.calls = <<Tag, Register>>
  /\ nBeginPlay = 1
  /\ PendingLevelsToLoad = 0

\* one BeginPlay, and no request besides its own LoadMapLayer
StartupOnly ==
  /\ nBeginPlay = 1
  /\ Len(loadBatches) = 1
  /\ unloadBatches = <<>>
  /\ nSpurious = 0

\* C19: with one BeginPlay and no other request, BeginPlay registers iff its
\* mask resolves to no sub-level, and otherwise the callback that leaves no
\* startup load in flight registers, once, and no callback before it.
C19_StartupRegistersOnce ==
  StartupOnly =>
    LET B == loadBatches[1]
        left == Remaining(LoadOps, 1)
    IN  /\ Size(B) = 0 =>
              /\ last.op = "BeginPlay"
              /\ Count(last.calls, Register) = 1
              /\ B.regs = 0
        /\ Size(B) >= 1 =>
              /\ last.op = "BeginPlay" => Count(last.calls, Register) = 0
              /\ B.regs = (IF left = 0 THEN 1 ELSE 0)
              /\ (last.op = "OnLoadStreamLevel" /\ left = 0) =>
                   Count(last.calls, Register) = 1

C19_Witness ==
  /\ StartupOnly
  /\ Size(loadBatches[1]) = 2
  /\ LoadOps = {}
  /\ loadBatches[1].regs = 1
  /\ last.op = "OnLoadStreamLevel"
  /\ Count(last.calls, Register) = 1

\* C20 as stated: the pass of the last unload completion runs with no load in
\* flight, the pass of the last load completion and the registration of
\* BeginPlay run with no unload in flight.
C20_NoPassWhileOtherDirectionStreams ==
  Count(last.calls, Register) > 0 =>
    /\ last.op = "OnUnloadStreamLevel" => LoadOps = {}
    /\ last.op \in {"OnLoadStreamLevel", "BeginPlay"} => UnloadOps = {}

\* C20, amended: each handler tests the ready flag and the counter of its own
\* direction only, and BeginPlay the load counter only; the counter and the
\* operations of the other direction have no part in it.
C20_PassTestsOwnCounterOnly ==
  [][ /\ last'.op = "OnUnloadStreamLevel" =>
           ( Count(last'.calls, Register) > 0
               <=> (ReadyToRegisterObjects /\ PendingLevelsToUnLoad' = 0) )
      /\ last'.op = "OnLoadStreamLevel" =>
           ( Count(last'.calls, Register) > 0
               <=> (ReadyToRegisterObjects /\ PendingLevelsToLoad' = 0) )
      /\ last'.op = "BeginPlay" =>
           ( Count(last'.calls, Register) > 0 <=> PendingLevelsToLoad' = 0 ) ]_vars

\* an unload pass that ran with a load in flight and the load counter above 0
C20_Witness ==
  /\ last.op = "OnUnloadStreamLevel"
  /\ Count(last.calls, Register) = 1
  /\ LoadOps # {}
  /\ PendingLevelsToLoad > 0

\* the step just taken issued load (unload) batch b, of at least one operation
LoadIssued(b) ==
  /\ last.op \in {"LoadMapLayer", "BeginPlay"}
  /\ last.batch = b
  /\ Size(loadBatches[b]) >= 1

UnloadIssued(b) ==
  /\ last.op = "UnLoadMapLayer"
  /\ last.batch = b
  /\ Size(unloadBatches[b]) >= 1

\* C16: if the ready flag is ever set, every request that issued at least one
\* operation leads to a step that makes the RegisterEnvironmentObjects call
\* with none of the request's operations left in flight.
C16_EveryRequestRegisters ==
  (<>ReadyToRegisterObjects) =>
    \A b \in 1..MaxRequests :
      /\ LoadIssued(b) ~>
           (Remaining(LoadOps, b) = 0 /\ Count(last.calls, Register) > 0)
      /\ UnloadIssued(b) ~>
           (Remaining(UnloadOps, b) = 0 /\ Count(last.calls, Register) > 0)

=============================================================================
